---- MODULE Spec2Model ----
(***************************************************************************)
(* PAD Checker: the lookup service (pad_service.py, class PADService) and  *)
(* the request router (main.py).                                           *)
(*                                                                         *)
(* A pandas table is [columns |-> set of names, rows |-> sequence of rows];*)
(* a row is a function from the table's columns to cells; a cell is        *)
(* [na |-> BOOLEAN, v |-> value] (na: NaN/None, what pd.notna rejects).    *)
(* An Optional value is None or Some(v).  A call that can raise yields     *)
(* [exc |-> name of the exception or NoExc, ret |-> value].                *)
(***************************************************************************)
EXTENDS Integers, Sequences, FiniteSets, TLC

VARIABLES
    projects_cache,   \* PADService._projects_cache
    users_cache,      \* PADService._users_cache
    epoch,            \* history of the current cache epoch (since __init__ / clear_cache)
    call,             \* the last completed call: its name, arguments, locals, outcome
    threads,          \* concurrent callers: each one's position and locals
    pad               \* the external data source: what pad.get_project_cards answers

vars == <<projects_cache, users_cache, epoch, call, threads, pad>>

----------------------------------------------------------------------------
(* Bounds of the model *)

MaxProjects == 2      \* rows of a project table
MaxGets == 3          \* get_projects() calls followed within one cache epoch
MaxEpochs == 2        \* clear_cache() calls followed

----------------------------------------------------------------------------
(* Python values *)

None == [isNone |-> TRUE]
Some(x) == [isNone |-> FALSE, v |-> x]

NoExc == "-"
Ok(x) == [exc |-> NoExc, ret |-> x]
Raise(e) == [exc |-> e, ret |-> None]

Cell(x) == [na |-> FALSE, v |-> x]
NaN == [na |-> TRUE]

Min(S) == CHOOSE m \in S : \A n \in S : m <= n

Range(s) == {s[i] : i \in 1..Len(s)}

\* Strings of the model in Python's str order (code points), and str.lower().
StrOrder == <<"", "Alice", "Unknown", "alice", "bob", "carol">>

StrRank(s) == CHOOSE i \in 1..Len(StrOrder) : StrOrder[i] = s

Lower(s) == CASE s = "Alice" -> "alice"
              [] s = "Unknown" -> "unknown"
              [] OTHER -> s

\* sorted(list of distinct strings)
Sorted(S) ==
    CHOOSE q \in [1..Cardinality(S) -> S] :
        \A i, j \in 1..Cardinality(S) : i < j => StrRank(q[i]) < StrRank(q[j])

----------------------------------------------------------------------------
(* The external data source: pad.get_projects() *)

UserCells == {NaN, Cell("Alice"), Cell("alice"), Cell("bob")}

ProjectName(i) == IF i = 1 THEN "p1" ELSE IF i = 2 THEN "p2" ELSE "p3"

\* A project table with n rows: ids 1..n, with or without a user_name column.
ProjectTablesOf(n) ==
    {[columns |-> {"id", "project_name", "user_name"},
      rows |-> [i \in 1..n |-> [id |-> Cell(i),
                                project_name |-> Cell(ProjectName(i)),
                                user_name |-> u[i]]]] : u \in [1..n -> UserCells]}
    \cup
    {[columns |-> {"id", "project_name"},
      rows |-> [i \in 1..n |-> [id |-> Cell(i),
                                project_name |-> Cell(ProjectName(i))]]]}

ProjectTables == UNION {ProjectTablesOf(n) : n \in 0..MaxProjects}

\* What one call of pad.get_projects() can do: return a table, or raise.
PadGetProjects == {Ok(t) : t \in ProjectTables} \cup {Raise("ConnectionError")}

----------------------------------------------------------------------------
(* PADService.get_projects / get_users / clear_cache, as functions of the   *)
(* cache fields and of what the external source answers.                   *)

\* get_projects(): [exc, ret, cache |-> _projects_cache afterwards, fetched]
GetProjectsNoMemo(cache, answer) ==
    IF answer.exc # NoExc
    THEN [exc |-> answer.exc, ret |-> None, cache |-> cache, fetched |-> TRUE]
    ELSE [exc |-> NoExc, ret |-> answer.ret, cache |-> cache, fetched |-> TRUE]

get_projects(cache, answer) ==
    IF cache.isNone
    THEN IF answer.exc # NoExc
         THEN [exc |-> answer.exc, ret |-> None, cache |-> cache, fetched |-> TRUE]
         ELSE [exc |-> NoExc, ret |-> answer.ret, cache |-> Some(answer.ret),
               fetched |-> TRUE]
    ELSE [exc |-> NoExc, ret |-> cache.v, cache |-> cache, fetched |-> FALSE]

\* projects["user_name"].dropna().unique().tolist()
DropnaUnique(df, col) ==
    {df.rows[i][col].v : i \in {k \in 1..Len(df.rows) : ~df.rows[k][col].na}}

\* lines 68-73: the list get_users() derives from the project table
UsersOf(df) ==
    IF "user_name" \in df.columns
    THEN Sorted(DropnaUnique(df, "user_name"))
    ELSE <<>>

----------------------------------------------------------------------------
(* Sequential calls on one PADService *)

\* The card tables are not read by the cache operations.
NoSource == <<>>

NoCall == [name |-> "__init__", exc |-> NoExc]

NewEpoch(n) == [n |-> n, gets |-> 0, calls |-> 0, failed |-> FALSE, first |-> None]

\* The epoch's history after one get_projects() with outcome r.
EpochAfter(e, r) ==
    [e EXCEPT !.gets = @ + 1,
              !.calls = IF r.fetched THEN @ + 1 ELSE @,
              !.failed = @ \/ r.exc # NoExc,
              !.first = IF r.fetched /\ r.exc = NoExc /\ @.isNone THEN Some(r.ret) ELSE @]

Init ==
    /\ projects_cache = None
    /\ users_cache = None
    /\ epoch = NewEpoch(0)
    /\ call = NoCall
    /\ threads = <<>>
    /\ pad = NoSource

GetProjects ==
    /\ epoch.gets < MaxGets
    /\ \E answer \in PadGetProjects :
         LET r == get_projects(projects_cache, answer) IN
         /\ projects_cache' = r.cache
         /\ epoch' = EpochAfter(epoch, r)
         /\ call' = [name |-> "get_projects", exc |-> r.exc, ret |-> r.ret]
    /\ UNCHANGED <<users_cache, threads, pad>>

GetUsers ==
    /\ epoch.gets < MaxGets
    /\ IF users_cache.isNone
       THEN \E answer \in PadGetProjects :
              LET r == get_projects(projects_cache, answer) IN
              /\ projects_cache' = r.cache
              /\ epoch' = EpochAfter(epoch, r)
              /\ IF r.exc # NoExc
                 THEN /\ users_cache' = users_cache
                      /\ call' = [name |-> "get_users", exc |-> r.exc, ret |-> <<>>]
                 ELSE /\ users_cache' = Some(UsersOf(r.ret))
                      /\ call' = [name |-> "get_users", exc |-> NoExc,
                                  ret |-> UsersOf(r.ret)]
       ELSE /\ call' = [name |-> "get_users", exc |-> NoExc, ret |-> users_cache.v]
            /\ UNCHANGED <<projects_cache, users_cache, epoch>>
    /\ UNCHANGED <<threads, pad>>

ClearCacheKeepUsers ==
    /\ epoch.n < MaxEpochs
    /\ projects_cache' = None
    /\ users_cache' = users_cache
    /\ epoch' = NewEpoch(epoch.n + 1)
    /\ call' = [name |-> "clear_cache", exc |-> NoExc]
    /\ UNCHANGED <<threads, pad>>

ClearCache ==
    /\ epoch.n < MaxEpochs
    /\ projects_cache' = None
    /\ users_cache' = None
    /\ epoch' = NewEpoch(epoch.n + 1)
    /\ call' = [name |-> "clear_cache", exc |-> NoExc]
    /\ UNCHANGED <<threads, pad>>

Next == GetProjects \/ GetUsers \/ ClearCache

Spec == Init /\ [][Next]_vars

----------------------------------------------------------------------------
(* Claims about the caches under sequential calls (specification Spec) *)

\* C1: within one cache epoch (since construction or the last clear_cache())
\* in which no external fetch failed, the external list-all-projects call is
\* made at most once, exactly once as soon as get_projects() has been called,
\* and every get_projects() returns the table fetched first in the epoch.
C1_FetchOncePerEpoch ==
    ~epoch.failed =>
        /\ epoch.calls <= 1
        /\ (epoch.gets >= 1 =>
                /\ epoch.calls = 1
                /\ ~epoch.first.isNone
                /\ projects_cache = epoch.first)
        /\ (call.name = "get_projects" => call.ret = epoch.first.v)

\* C1 witness: after a clear_cache(), a second get_projects() of the new
\* epoch has returned and the external source was called once in the epoch.
C1_Witness ==
    /\ epoch.n >= 1
    /\ ~epoch.failed
    /\ epoch.gets >= 2
    /\ epoch.calls = 1
    /\ call.name = "get_projects"
    /\ Len(call.ret.rows) = 2

\* C2: no exception ever reaches the caller of a Lookup Service operation.
C2_NoExceptionReachesCaller ==
    call.exc = NoExc

\* q is the sorted, duplicate-free list of the non-null usernames in df's
\* user_name column (the empty list when df has no such column).
IsUserListOf(q, df) ==
    /\ \A i, j \in 1..Len(q) : i < j => StrRank(q[i]) < StrRank(q[j])
    /\ Range(q) = IF "user_name" \in df.columns
                  THEN {df.rows[i].user_name.v :
                            i \in {k \in 1..Len(df.rows) : ~df.rows[k].user_name.na}}
                  ELSE {}

\* C8: the user list that get_users() returns, and the one held in the user
\* cache, is the sorted duplicate-free list of the non-null usernames of the
\* project table currently cached (the one get_projects() returns); the user
\* cache is never populated while the project cache is empty.
C8_UsersFollowProjects ==
    /\ (~users_cache.isNone =>
            /\ ~projects_cache.isNone
            /\ IsUserListOf(users_cache.v, projects_cache.v))
    /\ (call.name = "get_users" /\ call.exc = NoExc =>
            /\ ~projects_cache.isNone
            /\ IsUserListOf(call.ret, projects_cache.v))

\* C8 witness: in an epoch after a clear_cache(), get_users() has returned two
\* names from a table that lists them in the opposite order, with a duplicate
\* or a null dropped.
C8_Witness ==
    /\ epoch.n >= 1
    /\ call.name = "get_users"
    /\ call.exc = NoExc
    /\ call.ret = <<"Alice", "bob">>
    /\ Len(projects_cache.v.rows) = 2
    /\ projects_cache.v.rows[1].user_name = Cell("bob")
    /\ projects_cache.v.rows[2].user_name = Cell("Alice")

----------------------------------------------------------------------------
(* Concurrent calls on one PADService (specification SpecRace).  A call is  *)
(* interleaved with the others at its reads and writes of the cache fields  *)
(* and at the external fetch.                                               *)

NumThreads == 2       \* concurrent callers
MaxCalls == 2         \* calls each caller makes

\* The tables the external source answers with while callers race.
RaceTables == ProjectTablesOf(1)

Idle(left) == [pc |-> "idle", op |-> "-", left |-> left, projects |-> None]

InitRace ==
    /\ projects_cache = None
    /\ users_cache = None
    /\ epoch = NewEpoch(0)
    /\ call = NoCall
    /\ threads = [t \in 1..NumThreads |-> Idle(MaxCalls)]
    /\ pad = NoSource

Goto(t, pc) == threads' = [threads EXCEPT ![t].pc = pc]

Finish(t, name, exc) ==
    /\ threads' = [threads EXCEPT ![t] = Idle(threads[t].left)]
    /\ call' = [name |-> name, exc |-> exc]

\* A caller enters get_projects(), get_users() or clear_cache().
Begin(t) ==
    /\ threads[t].pc = "idle"
    /\ threads[t].left > 0
    /\ \E op \in {"get_projects", "get_users", "clear_cache"} :
         threads' = [threads EXCEPT ![t] =
                        [pc |-> CASE op = "get_projects" -> "gp_check"
                                  [] op = "get_users" -> "gu_check"
                                  [] OTHER -> "cc_projects",
                         op |-> op, left |-> @.left - 1, projects |-> None]]
    /\ UNCHANGED <<projects_cache, users_cache, epoch, call, pad>>

\* line 60: if self._projects_cache is None
GpCheck(t) ==
    /\ threads[t].pc = "gp_check"
    /\ Goto(t, IF projects_cache.isNone THEN "gp_fetch" ELSE "gp_return")
    /\ UNCHANGED <<projects_cache, users_cache, epoch, call, pad>>

\* line 61, right-hand side: pad.get_projects()
GpFetch(t) ==
    /\ threads[t].pc = "gp_fetch"
    /\ \/ /\ \E df \in RaceTables :
               threads' = [threads EXCEPT ![t].pc = "gp_write", ![t].projects = Some(df)]
          /\ UNCHANGED call
       \/ Finish(t, threads[t].op, "ConnectionError")
    /\ UNCHANGED <<projects_cache, users_cache, epoch, pad>>

\* line 61, the assignment to self._projects_cache
GpWrite(t) ==
    /\ threads[t].pc = "gp_write"
    /\ projects_cache' = threads[t].projects
    /\ Goto(t, "gp_return")
    /\ UNCHANGED <<users_cache, epoch, call, pad>>

\* line 62: return self._projects_cache (read again), into the caller
GpReturn(t) ==
    /\ threads[t].pc = "gp_return"
    /\ IF threads[t].op = "get_projects"
       THEN Finish(t, "get_projects", NoExc)
       ELSE /\ threads' = [threads EXCEPT ![t].pc = "gu_derive",
                                          ![t].projects = projects_cache]
            /\ UNCHANGED call
    /\ UNCHANGED <<projects_cache, users_cache, epoch, pad>>

\* line 66: if self._users_cache is None
GuCheck(t) ==
    /\ threads[t].pc = "gu_check"
    /\ Goto(t, IF users_cache.isNone THEN "gp_check" ELSE "gu_return")
    /\ UNCHANGED <<projects_cache, users_cache, epoch, call, pad>>

\* lines 68-73: derive the user list from the local `projects` and store it
GuDerive(t) ==
    /\ threads[t].pc = "gu_derive"
    /\ IF threads[t].projects.isNone
       THEN /\ Finish(t, "get_users", "AttributeError")
            /\ UNCHANGED users_cache
       ELSE /\ users_cache' = Some(UsersOf(threads[t].projects.v))
            /\ Goto(t, "gu_return")
            /\ UNCHANGED call
    /\ UNCHANGED <<projects_cache, epoch, pad>>

\* line 74: return self._users_cache
GuReturn(t) ==
    /\ threads[t].pc = "gu_return"
    /\ Finish(t, "get_users", NoExc)
    /\ UNCHANGED <<projects_cache, users_cache, epoch, pad>>

\* line 337: self._projects_cache = None
CcProjects(t) ==
    /\ threads[t].pc = "cc_projects"
    /\ projects_cache' = None
    /\ Goto(t, "cc_users")
    /\ UNCHANGED <<users_cache, epoch, call, pad>>

\* line 338: self._users_cache = None
CcUsers(t) ==
    /\ threads[t].pc = "cc_users"
    /\ users_cache' = None
    /\ Finish(t, "clear_cache", NoExc)
    /\ UNCHANGED <<projects_cache, epoch, pad>>

NextRace ==
    \E t \in 1..NumThreads :
        \/ Begin(t)
        \/ GpCheck(t)
        \/ GpFetch(t)
        \/ GpWrite(t)
        \/ GpReturn(t)
        \/ GuCheck(t)
        \/ GuDerive(t)
        \/ GuReturn(t)
        \/ CcProjects(t)
        \/ CcUsers(t)

SpecRace == InitRace /\ [][NextRace]_vars

NoCallInProgress == \A t \in 1..NumThreads : threads[t].pc = "idle"

\* C9: once no call is in progress, the project cache is empty or holds a
\* table returned by the external source, and the user cache is empty or is
\* exactly the user list derived from the table held in the project cache.
C9_QuiescentCachesConsistent ==
    NoCallInProgress =>
        /\ (projects_cache.isNone \/ projects_cache.v \in RaceTables)
        /\ (users_cache.isNone \/
                /\ ~projects_cache.isNone
                /\ users_cache.v = UsersOf(projects_cache.v))

----------------------------------------------------------------------------
(* Normalization: _find_column, _safe_get, _format_datetime,                *)
(* _convert_image_path_to_url, _parse_notes, _row_to_card_info              *)

PAD_BASE_URL == "https://pad.crc.nd.edu"

\* _find_column: the first candidate that is a column of df, or None.
FindColumn(df, candidates) ==
    LET hits == {i \in 1..Len(candidates) : candidates[i] \in df.columns}
    IN  IF hits = {} THEN None ELSE Some(candidates[Min(hits)])

\* _safe_get: the cell of the first candidate column that the row has and
\* whose value is not null, or the default.
SafeGet(row, candidates, default) ==
    LET hits == {i \in 1..Len(candidates) :
                    /\ candidates[i] \in DOMAIN row
                    /\ ~row[candidates[i]].na}
    IN  IF hits = {} THEN default ELSE row[candidates[Min(hits)]]

\* Creation-date strings of the model, in Python's str order.
DateOrder == <<"2024-01-05T09:00:00Z", "2024-02-10T08:15:00Z",
               "2024-03-02T14:30:00", "not-a-date">>

DateRank(s) == CHOOSE i \in 1..Len(DateOrder) : DateOrder[i] = s

\* _format_datetime: "" for a falsy value; an ISO-8601 string (a trailing Z
\* read as +00:00) as DD/MM/YYYY hh:mm AM/PM; any other string unchanged.
FormatDatetime(dt) ==
    IF dt.na \/ dt.v = "" THEN ""
    ELSE CASE dt.v = "2024-01-05T09:00:00Z" -> "05/01/2024 09:00 AM"
           [] dt.v = "2024-02-10T08:15:00Z" -> "10/02/2024 08:15 AM"
           [] dt.v = "2024-03-02T14:30:00" -> "02/03/2024 02:30 PM"
           [] OTHER -> dt.v

\* str.startswith("/var/www/html"), the slice after it, str.startswith("/")
\* and "/" + path, on the image paths of the model.
StartsWithHtmlRoot(path) == path \in {"/var/www/html/images/x.png", "/var/www/html"}

StripHtmlRoot(path) ==
    CASE path = "/var/www/html/images/x.png" -> "/images/x.png"
      [] path = "/var/www/html" -> ""
      [] OTHER -> path

StartsWithSlash(path) ==
    path \in {"/images/x.png", "/var/www/html/images/x.png", "/var/www/html"}

PrependSlash(path) ==
    CASE path = "images/x.png" -> "/images/x.png"
      [] path = "" -> "/"
      [] OTHER -> path

\* _convert_image_path_to_url: None for a falsy path, else base URL + path.
ConvertImagePathToUrl(path) ==
    IF path.na \/ path.v = "" THEN None
    ELSE LET p1 == IF StartsWithHtmlRoot(path.v) THEN StripHtmlRoot(path.v) ELSE path.v
             p2 == IF ~StartsWithSlash(p1) THEN PrependSlash(p1) ELSE p1
         IN  Some([base |-> PAD_BASE_URL, path |-> p2])

\* The keys of a notes object, in the order of NotesInfo's structured fields.
NoteKeys == <<"Phone ID", "User", "App type", "Build", "Neural net",
              "Predicted drug", "Prediction score", "Safe", "Quantity NN",
              "Quantity PLS", "PLS used", "Notes">>

NoteFields == <<"phone_id", "user", "app_type", "build", "neural_net",
                "predicted_drug", "prediction_score", "safe_status", "quantity_nn",
                "quantity_pls", "pls_used", "notes_text">>

\* A notes string is modelled by what json.loads makes of it: its form
\* ("object", "array", "number", "string", "null", "malformed", or "empty" for
\* the empty string) and, for an object, its members.  A member's value is
\* "x" (a non-empty value), "" (the empty string) or "null".
NotesText(form, members) == [form |-> form, members |-> members]

\* json.loads(notes_str)
JsonLoads(text) ==
    IF text.form = "malformed" THEN Raise("JSONDecodeError") ELSE Ok(text)

\* data.get(key), for data a dict
DictGet(data, key) ==
    IF key \in DOMAIN data /\ data[key] # "null" THEN Some(data[key]) ELSE None

\* data.get(key) or None
DictGetOrNone(data, key) ==
    IF key \in DOMAIN data /\ data[key] \notin {"null", ""} THEN Some(data[key]) ELSE None

NotesInfo(data) ==
    [phone_id |-> DictGet(data, "Phone ID"),
     user |-> DictGetOrNone(data, "User"),
     app_type |-> DictGet(data, "App type"),
     build |-> DictGet(data, "Build"),
     neural_net |-> DictGet(data, "Neural net"),
     predicted_drug |-> DictGet(data, "Predicted drug"),
     prediction_score |-> DictGet(data, "Prediction score"),
     safe_status |-> DictGet(data, "Safe"),
     quantity_nn |-> DictGet(data, "Quantity NN"),
     quantity_pls |-> DictGet(data, "Quantity PLS"),
     pls_used |-> DictGet(data, "PLS used"),
     notes_text |-> DictGetOrNone(data, "Notes"),
     raw |-> None]

RawNotes(text) ==
    [phone_id |-> None, user |-> None, app_type |-> None, build |-> None,
     neural_net |-> None, predicted_drug |-> None, prediction_score |-> None,
     safe_status |-> None, quantity_nn |-> None, quantity_pls |-> None,
     pls_used |-> None, notes_text |-> None, raw |-> Some(text)]

\* _parse_notes: None for a falsy argument; the structured record of a JSON
\* object; the raw record when json.loads raises JSONDecodeError.  data.get
\* on a JSON value that is no object raises AttributeError, which the except
\* clause (json.JSONDecodeError, TypeError) does not catch.
ParseNotes(notes_str) ==
    IF notes_str.na \/ notes_str.v.form = "empty" THEN Ok(None)
    ELSE LET data == JsonLoads(notes_str.v)
         IN  IF data.exc = "JSONDecodeError" THEN Ok(Some(RawNotes(notes_str.v)))
             ELSE IF data.ret.form # "object" THEN Raise("AttributeError")
             ELSE Ok(Some(NotesInfo(data.ret.members)))

\* int(x): the integer itself, the integer a numeric string spells, or
\* ValueError.
PyInt(n) == [t |-> "int", n |-> n]
PyStr(x) == [t |-> "str", s |-> x]

IntOf(x) ==
    IF x.t = "int" THEN Ok(x.n)
    ELSE CASE x.s = "7" -> Ok(7)
           [] x.s = "8" -> Ok(8)
           [] OTHER -> Raise("ValueError")

\* _row_to_card_info
RowToCardInfo(row) ==
    LET raw_image_path == SafeGet(row, <<"processed_file_location", "raw_file_location",
                                         "url", "image_url">>, NaN)
        raw_notes == SafeGet(row, <<"notes", "note">>, NaN)
        id == IntOf(SafeGet(row, <<"id", "card_id">>, Cell(PyInt(0))).v)
        notes == ParseNotes(raw_notes)
    IN  IF id.exc # NoExc THEN Raise(id.exc)
        ELSE IF notes.exc # NoExc THEN Raise(notes.exc)
        ELSE Ok([id |-> id.ret,
                 sample_id |-> SafeGet(row, <<"sample_id">>, NaN),
                 sample_name |-> SafeGet(row, <<"sample_name", "sample_name.name",
                                                "drug_name">>, Cell("Unknown")).v,
                 project_name |-> SafeGet(row, <<"project.project_name", "project_name",
                                                 "project.name">>, Cell("Unknown")).v,
                 user_name |-> SafeGet(row, <<"user_name", "user_name.name", "user">>,
                                       Cell("Unknown")).v,
                 date_of_creation |-> FormatDatetime(
                     SafeGet(row, <<"date_of_creation", "created_at", "date">>, Cell(""))),
                 quantity |-> SafeGet(row, <<"quantity", "concentration">>, NaN),
                 notes |-> notes.ret,
                 image_url |-> ConvertImagePathToUrl(raw_image_path),
                 camera_type |-> SafeGet(row, <<"camera_type_1", "camera_type">>, NaN)])

----------------------------------------------------------------------------
(* _parse_notes on its own (specification SpecNotes) *)

NoteKeySet == Range(NoteKeys)

JsonValues == {"x", "", "null"}

\* Keys whose value is varied over JsonValues; the other members are "x".
VariedKeys == {"Phone ID", "User", "Notes"}

\* The JSON objects of the model: any subset of the recognized keys.
NoteObjects ==
    UNION {{[k \in K |-> IF k \in DOMAIN f THEN f[k] ELSE "x"] :
                f \in [K \cap VariedKeys -> JsonValues]} : K \in SUBSET NoteKeySet}

NotesStrings ==
    {NaN}
    \cup {Cell(NotesText(form, <<>>)) :
            form \in {"empty", "malformed", "array", "number", "string", "null"}}
    \cup {Cell(NotesText("object", m)) : m \in NoteObjects}

Idle0 ==
    /\ projects_cache = None
    /\ users_cache = None
    /\ epoch = NewEpoch(0)
    /\ threads = <<>>

InitNotes ==
    /\ Idle0
    /\ pad = NoSource
    /\ call \in {[name |-> "argument", exc |-> NoExc, notes_str |-> x] : x \in NotesStrings}

ParseNotesCall ==
    /\ call.name = "argument"
    /\ LET r == ParseNotes(call.notes_str) IN
       call' = [name |-> "_parse_notes", exc |-> r.exc, notes_str |-> call.notes_str,
                ret |-> r.ret]
    /\ UNCHANGED <<projects_cache, users_cache, epoch, threads, pad>>

NextNotes == ParseNotesCall

SpecNotes == InitNotes /\ [][NextNotes]_vars

StructuredFields == Range(NoteFields)

\* C6: for every non-empty notes string, parsing never fails and yields a
\* Notes record: a JSON object with all recognized keys (each with a non-empty
\* value) gives every structured field set and raw unset; a string that
\* cannot be turned into the structured record gives a record with only raw
\* set, holding the original string; no record mixes raw with structured
\* fields.
C6_NotesParsingTotal ==
    (/\ call.name = "_parse_notes"
     /\ ~call.notes_str.na
     /\ call.notes_str.v.form # "empty") =>
        /\ call.exc = NoExc
        /\ ~call.ret.isNone
        /\ (/\ call.notes_str.v.form = "object"
            /\ DOMAIN call.notes_str.v.members = NoteKeySet
            /\ \A k \in NoteKeySet : call.notes_str.v.members[k] = "x") =>
               /\ \A f \in StructuredFields : ~call.ret.v[f].isNone
               /\ call.ret.v.raw.isNone
        /\ call.notes_str.v.form # "object" =>
               /\ \A f \in StructuredFields : call.ret.v[f].isNone
               /\ call.ret.v.raw = Some(call.notes_str.v)
        /\ ~call.ret.v.raw.isNone => \A f \in StructuredFields : call.ret.v[f].isNone

----------------------------------------------------------------------------
(* _row_to_card_info on its own (specification SpecRow) *)

\* Every way a group of candidate columns can be present, null or filled.
Patterns(columns, cells) == UNION {[K -> cells] : K \in SUBSET columns}

IdCells == {NaN, Cell(PyInt(7)), Cell(PyStr("8"))}

NameCells == {NaN, Cell("alice"), Cell("bob")}

DateCells == {NaN, Cell("2024-01-05T09:00:00Z"), Cell("not-a-date")}

AllKeys == [k \in NoteKeySet |-> "x"]

NotesCells == {NaN, Cell(NotesText("object", AllKeys)), Cell(NotesText("malformed", <<>>)),
               Cell(NotesText("array", <<>>))}

PathCells == {NaN, Cell(""), Cell("/var/www/html/images/x.png"), Cell("images/x.png")}

\* The rows _row_to_card_info is applied to: the identifier and notes columns
\* varied together, each other group of candidate columns varied in turn.
InputRows ==
    {a @@ b : a \in Patterns({"id", "card_id"}, IdCells),
              b \in Patterns({"notes", "note"}, NotesCells)}
    \cup Patterns({"sample_name", "sample_name.name", "drug_name"}, NameCells)
    \cup Patterns({"project.project_name", "project_name", "project.name"}, NameCells)
    \cup Patterns({"user_name", "user_name.name", "user"}, NameCells)
    \cup Patterns({"date_of_creation", "created_at", "date"}, DateCells)
    \cup Patterns({"processed_file_location", "raw_file_location"}, PathCells)

InitRow ==
    /\ Idle0
    /\ pad = NoSource
    /\ call \in {[name |-> "argument", exc |-> NoExc, row |-> x] : x \in InputRows}

RowToCardInfoCall ==
    /\ call.name = "argument"
    /\ LET r == RowToCardInfo(call.row) IN
       call' = [name |-> "_row_to_card_info", exc |-> r.exc, row |-> call.row,
                ret |-> r.ret]
    /\ UNCHANGED <<projects_cache, users_cache, epoch, threads, pad>>

NextRow == RowToCardInfoCall

SpecRow == InitRow /\ [][NextRow]_vars

\* The value of the first of the candidate columns that the row has with a
\* non-null value, or the default.
FirstPresent(row, candidates, default) ==
    IF \E i \in 1..Len(candidates) : candidates[i] \in DOMAIN row /\ ~row[candidates[i]].na
    THEN LET i == CHOOSE i \in 1..Len(candidates) :
                      /\ candidates[i] \in DOMAIN row /\ ~row[candidates[i]].na
                      /\ \A j \in 1..(i - 1) :
                            candidates[j] \notin DOMAIN row \/ row[candidates[j]].na
         IN  row[candidates[i]].v
    ELSE default

\* C7: for any input row, _row_to_card_info produces a Card without raising,
\* each field taken from the first candidate column present and non-null and
\* otherwise from its default (0, "Unknown", "Unknown", "Unknown", "").
C7_NormalizationTotal ==
    call.name = "_row_to_card_info" =>
        /\ call.exc = NoExc
        /\ call.ret.sample_name =
               FirstPresent(call.row, <<"sample_name", "sample_name.name", "drug_name">>,
                            "Unknown")
        /\ call.ret.project_name =
               FirstPresent(call.row, <<"project.project_name", "project_name",
                                        "project.name">>, "Unknown")
        /\ call.ret.user_name =
               FirstPresent(call.row, <<"user_name", "user_name.name", "user">>, "Unknown")
        /\ (\A c \in {"id", "card_id"} : c \notin DOMAIN call.row \/ call.row[c].na)
               => call.ret.id = 0
        /\ (\A c \in {"date_of_creation", "created_at", "date"} :
                c \notin DOMAIN call.row \/ call.row[c].na)
               => call.ret.date_of_creation = ""

----------------------------------------------------------------------------
(* pandas operations on a card table.  A table carries its index labels,    *)
(* which sorting and head() keep with the rows.                             *)

MaxCardRows == 4      \* rows of a project's card table

DefaultLimit == 3     \* get_recent_cards_in_project(project_name, limit=3)

Table(columns, rows) ==
    [columns |-> columns, index |-> [i \in 1..Len(rows) |-> i - 1], rows |-> rows]

EmptyTable == Table({}, <<>>)

\* df.empty: an axis of length 0
Empty(df) == Len(df.rows) = 0 \/ df.columns = {}

PermsOf(n) == {p \in [1..n -> 1..n] : \A i, j \in 1..n : i # j => p[i] # p[j]}

PermsByLen == [n \in 0..(MaxCardRows + 1) |-> PermsOf(n)]

Reorder(df, p) ==
    [df EXCEPT !.index = [i \in 1..Len(df.rows) |-> df.index[p[i]]],
               !.rows = [i \in 1..Len(df.rows) |-> df.rows[p[i]]]]

\* The order sort_values gives a cell of a date column: null below every value.
SortKey(cell) == IF cell.na THEN 0 ELSE DateRank(cell.v)

\* df.sort_values(by=by, ascending=False): descending, nulls last; the order
\* of rows with equal values is the sort algorithm's choice.
SortValues(df, by) ==
    {Reorder(df, p) : p \in {q \in PermsByLen[Len(df.rows)] :
        \A i, j \in 1..Len(df.rows) :
            i < j => SortKey(df.rows[q[i]][by]) >= SortKey(df.rows[q[j]][by])}}

DfHeadOneMore(df, n) ==
    LET len == Len(df.rows)
        k == IF n + 1 >= len THEN len ELSE IF n + 1 >= 0 THEN n + 1 ELSE 0
    IN  [df EXCEPT !.index = SubSeq(df.index, 1, k), !.rows = SubSeq(df.rows, 1, k)]

\* df.head(n): the first n rows; for negative n, all but the last |n| rows.
DfHead(df, n) ==
    LET len == Len(df.rows)
        k == IF n >= 0 THEN (IF n < len THEN n ELSE len)
                       ELSE (IF len + n > 0 THEN len + n ELSE 0)
    IN  [df EXCEPT !.index = SubSeq(df.index, 1, k), !.rows = SubSeq(df.rows, 1, k)]

DateColumns == <<"date_of_creation", "created_at", "date">>

\* lines 184-190, 217-223, 124-133: sort by the first date column, if any
SortByDate(df) ==
    LET date_col == FindColumn(df, DateColumns)
    IN  IF date_col.isNone THEN {df} ELSE SortValues(df, date_col.v)

\* [self._row_to_card_info(row) for _, row in recent.iterrows()]
RowsToCards(df) ==
    LET cards == [i \in 1..Len(df.rows) |-> RowToCardInfo(df.rows[i])]
        bad == {i \in 1..Len(df.rows) : cards[i].exc # NoExc}
    IN  IF bad = {} THEN Ok([i \in 1..Len(df.rows) |-> cards[i].ret])
        ELSE Raise(cards[Min(bad)].exc)

----------------------------------------------------------------------------
(* The operations on a project's cards.  Each yields the set of its possible *)
(* outcomes [ret, caught, ...locals]: caught names the exception the         *)
(* operation's except clause swallowed, or NoExc.                            *)

\* get_recent_cards_in_project(project_name, limit), given what
\* pad.get_project_cards(project_name) answers
GetRecentCardsInProject(answer, limit) ==
    IF answer.exc # NoExc
    THEN {[ret |-> <<>>, caught |-> answer.exc, recent |-> EmptyTable]}
    ELSE IF Empty(answer.ret)
    THEN {[ret |-> <<>>, caught |-> NoExc, recent |-> EmptyTable]}
    ELSE {LET recent == DfHead(cards, limit)
              r == RowsToCards(recent)
          IN  IF r.exc # NoExc
              THEN [ret |-> <<>>, caught |-> r.exc, recent |-> recent]
              ELSE [ret |-> r.ret, caught |-> NoExc, recent |-> recent]
          : cards \in SortByDate(answer.ret)}

\* The outcome for a row picked as the latest.
LatestOutcome(latest) ==
    LET r == RowToCardInfo(latest)
    IN  IF r.exc # NoExc
        THEN [ret |-> None, caught |-> r.exc, latest |-> Some(latest)]
        ELSE [ret |-> Some(r.ret), caught |-> NoExc, latest |-> Some(latest)]

\* get_latest_card_in_project(project_name)
GetLatestCardInProject(answer) ==
    IF answer.exc # NoExc
    THEN {[ret |-> None, caught |-> answer.exc, latest |-> None]}
    ELSE IF Empty(answer.ret)
    THEN {[ret |-> None, caught |-> NoExc, latest |-> None]}
    ELSE {LatestOutcome(cards.rows[1]) : cards \in SortByDate(answer.ret)}

\* get_card_by_id(card_id), given what pad.get_card(card_id=card_id) answers
\* (None, a table, or an exception)
GetCardById(answer) ==
    IF answer.exc # NoExc
    THEN [ret |-> None, caught |-> answer.exc]
    ELSE IF answer.ret.isNone \/ Empty(answer.ret.v)
    THEN [ret |-> None, caught |-> NoExc]
    ELSE LET r == RowToCardInfo(answer.ret.v.rows[1])
         IN  IF r.exc # NoExc THEN [ret |-> None, caught |-> r.exc]
             ELSE [ret |-> Some(r.ret), caught |-> NoExc]

\* main.py, check_newer: the notice when there is a latest card and its
\* identifier differs from current_id, else the empty response
CheckNewerAlways(latest, current_id) ==
    IF ~latest.isNone
    THEN [body |-> "newer_alert", new_id |-> latest.v.id]
    ELSE [body |-> "", new_id |-> 0]

CheckNewer(latest, current_id) ==
    IF ~latest.isNone /\ latest.v.id # current_id
    THEN [body |-> "newer_alert", new_id |-> latest.v.id]
    ELSE [body |-> "", new_id |-> 0]

----------------------------------------------------------------------------
(* Lookups in a project (specification SpecCards): get_recent_cards_in_     *)
(* project, get_latest_card_in_project, get_card_by_id and GET /check-newer *)
(* against an external source that holds the cards of project p1, other     *)
(* cards for p2, and fails for p3.                                          *)

D1 == Cell("2024-01-05T09:00:00Z")
D2 == Cell("2024-02-10T08:15:00Z")
D3 == Cell("2024-03-02T14:30:00")

GoodNotes == Cell(NotesText("object", AllKeys))
ArrayNotes == Cell(NotesText("array", <<>>))

TablesOver(columns, rowset) ==
    {Table(columns, rows) : rows \in UNION {[1..n -> rowset] : n \in 0..MaxCardRows}}

\* The card tables of p1: each layout of columns the lookups tell apart.
CardTables ==
    TablesOver({"date_of_creation"},
               {[date_of_creation |-> d] : d \in {NaN, D1, D2, D3}})
    \cup TablesOver({"id", "date_of_creation"},
               {[id |-> i, date_of_creation |-> d] :
                    i \in {Cell(PyInt(7)), Cell(PyStr("8"))}, d \in {D1, D2}})
    \cup TablesOver({"id"},
               {[id |-> i] : i \in {NaN, Cell(PyInt(7)), Cell(PyStr("abc"))}})
    \cup TablesOver({"created_at", "date"},
               {[created_at |-> NaN, date |-> D3], [created_at |-> D1, date |-> D2],
                [created_at |-> D2, date |-> D1]})
    \cup TablesOver({"card_id", "notes"},
               {[card_id |-> Cell(PyInt(7)), notes |-> GoodNotes],
                [card_id |-> Cell(PyInt(8)), notes |-> NaN],
                [card_id |-> Cell(PyInt(8)), notes |-> ArrayNotes]})
    \cup TablesOver({}, {<<>>})

OtherCards ==
    Table({"id", "date_of_creation"},
          <<[id |-> Cell(PyInt(90)), date_of_creation |-> D1],
            [id |-> Cell(PyInt(91)), date_of_creation |-> D3]>>)

ProjectNames == {"p1", "p2", "p3"}

Source(cards) ==
    [p \in ProjectNames |-> CASE p = "p1" -> Ok(cards)
                              [] p = "p2" -> Ok(OtherCards)
                              [] OTHER -> Raise("ConnectionError")]

\* pad.get_project_cards(project_name)
PadGetProjectCards(project_name) == pad[project_name]

\* What pad.get_card(card_id=...) can answer.
PadGetCard ==
    {Ok(None), Ok(Some(EmptyTable)), Ok(Some(OtherCards)), Raise("ConnectionError"),
     Ok(Some(Table({"card_id", "notes"},
                   <<[card_id |-> Cell(PyInt(7)), notes |-> ArrayNotes]>>)))}

\* The limit argument: omitted, or an integer.
LimitArgs == {None} \cup {Some(n) : n \in {0 - 1, 0, 1, 2, MaxCardRows}}

CurrentIds == {0, 7, 8}

InitCards ==
    /\ Idle0
    /\ call = NoCall
    /\ pad \in {Source(cards) : cards \in CardTables}

GetRecentCardsInProjectCall ==
    /\ call = NoCall
    /\ \E project_name \in ProjectNames, limit \in LimitArgs :
         \E out \in GetRecentCardsInProject(PadGetProjectCards(project_name),
                        IF limit.isNone THEN DefaultLimit ELSE limit.v) :
            call' = [name |-> "get_recent_cards_in_project", exc |-> NoExc,
                     project_name |-> project_name,
                     limit |-> IF limit.isNone THEN DefaultLimit ELSE limit.v,
                     ret |-> out.ret, caught |-> out.caught, recent |-> out.recent]
    /\ UNCHANGED <<projects_cache, users_cache, epoch, threads, pad>>

GetLatestCardInProjectCall ==
    /\ call = NoCall
    /\ \E project_name \in ProjectNames :
         \E out \in GetLatestCardInProject(PadGetProjectCards(project_name)) :
            call' = [name |-> "get_latest_card_in_project", exc |-> NoExc,
                     project_name |-> project_name,
                     ret |-> out.ret, caught |-> out.caught, latest |-> out.latest]
    /\ UNCHANGED <<projects_cache, users_cache, epoch, threads, pad>>

GetCardByIdCall ==
    /\ call = NoCall
    /\ \E answer \in PadGetCard :
         LET out == GetCardById(answer) IN
         call' = [name |-> "get_card_by_id", exc |-> NoExc,
                  ret |-> out.ret, caught |-> out.caught]
    /\ UNCHANGED <<projects_cache, users_cache, epoch, threads, pad>>

\* GET /check-newer
CheckNewerCall ==
    /\ call = NoCall
    /\ \E project \in ProjectNames, current_id \in CurrentIds :
         \E out \in GetLatestCardInProject(PadGetProjectCards(project)) :
            call' = [name |-> "check_newer", exc |-> NoExc,
                     project |-> project, current_id |-> current_id,
                     latest |-> out.latest, caught |-> out.caught,
                     response |-> CheckNewer(out.ret, current_id)]
    /\ UNCHANGED <<projects_cache, users_cache, epoch, threads, pad>>

\* The call has returned to its caller; the service takes the next one.
Return ==
    /\ call # NoCall
    /\ call' = NoCall
    /\ UNCHANGED <<projects_cache, users_cache, epoch, threads, pad>>

NextCards ==
    \/ Return
    \/ GetRecentCardsInProjectCall
    \/ GetLatestCardInProjectCall
    \/ GetCardByIdCall
    \/ CheckNewerCall

SpecCards == InitCards /\ [][NextCards]_vars

----------------------------------------------------------------------------
(* Claims about the lookups in a project (specification SpecCards) *)

\* A row's creation date as the lookups order it: its value in the table's
\* first creation-date column (date_of_creation, else created_at, else date),
\* a null value ranking below every date; 0 when the table has none of them.
CreationRank(df, row) ==
    LET c == IF "date_of_creation" \in df.columns THEN "date_of_creation"
             ELSE IF "created_at" \in df.columns THEN "created_at"
             ELSE IF "date" \in df.columns THEN "date"
             ELSE ""
    IN  IF c = "" \/ row[c].na THEN 0 ELSE DateRank(row[c].v)

\* The cards returned by get_recent_cards_in_project are the normalizations
\* of distinct rows of the project's table (row i of the local `recent` being
\* the table's row labelled recent.index[i]), in descending order of creation
\* date, none older than a row left out; none when the project has no cards.
RecentCardsWellFormed ==
    LET answer == pad[call.project_name]
        n == Len(call.ret)
    IN  /\ call.exc = NoExc
        /\ (answer.exc # NoExc \/ Len(answer.ret.rows) = 0) => n = 0
        /\ n > 0 =>
            LET df == answer.ret
                recent == call.recent
            IN  /\ Len(recent.rows) = n
                /\ \A i \in 1..n :
                      /\ recent.index[i] + 1 \in 1..Len(df.rows)
                      /\ recent.rows[i] = df.rows[recent.index[i] + 1]
                      /\ RowToCardInfo(df.rows[recent.index[i] + 1]) = Ok(call.ret[i])
                /\ \A i, j \in 1..n :
                      i < j => /\ recent.index[i] # recent.index[j]
                               /\ CreationRank(df, recent.rows[i])
                                      >= CreationRank(df, recent.rows[j])
                /\ \A i \in 1..n, k \in 1..Len(df.rows) :
                      (k - 1) \notin Range(recent.index)
                          => CreationRank(df, df.rows[k]) <= CreationRank(df, recent.rows[i])

\* C4 (as claimed): for any project and any limit, get_recent_cards_in_project
\* returns at most limit cards, in descending order of creation date, each a
\* row of the project's cards, none older than a card left out, and the empty
\* list when the project has no cards.  (For a limit below 0, "at most limit
\* cards" is read as no card.)
C4_AtMostLimitAnyLimit ==
    call.name = "get_recent_cards_in_project" =>
        /\ Len(call.ret) <= (IF call.limit < 0 THEN 0 ELSE call.limit)
        /\ RecentCardsWellFormed

\* C4 (amended): the same for any limit >= 0; a negative limit is not an
\* upper bound on the number of cards returned.
C4_RecentCards ==
    call.name = "get_recent_cards_in_project" =>
        /\ (call.limit >= 0 => Len(call.ret) <= call.limit)
        /\ RecentCardsWellFormed

\* C4 witness: with the default limit, three of p1's four cards are returned,
\* the newest of them last in the table and the one left out a null date.
C4_Witness ==
    /\ call.name = "get_recent_cards_in_project"
    /\ call.project_name = "p1"
    /\ call.limit = DefaultLimit
    /\ Len(pad["p1"].ret.rows) = 4
    /\ Len(call.ret) = 3
    /\ call.recent.index = <<3, 0, 2>>
    /\ pad["p1"].ret.rows[2] = [date_of_creation |-> NaN]

\* The identifier normalization gives a row: int() of its first non-null
\* id / card_id, else 0.
CardIdOf(row) == IntOf(FirstPresent(row, <<"id", "card_id">>, PyInt(0)))

\* C5: GET /check-newer answers the notice if and only if the project has a
\* latest card (the lookup neither fails nor finds the project empty) and
\* that card's identifier differs from current_id; otherwise the response is
\* empty.  The latest card is a row of the project with the greatest creation
\* date.
C5_CheckNewer ==
    call.name = "check_newer" =>
        LET answer == pad[call.project] IN
        /\ call.exc = NoExc
        /\ call.response.body \in {"", "newer_alert"}
        /\ IF answer.exc # NoExc \/ Len(answer.ret.rows) = 0 \/ answer.ret.columns = {}
           THEN call.response.body = ""
           ELSE /\ ~call.latest.isNone
                /\ \E k \in 1..Len(answer.ret.rows) :
                      /\ answer.ret.rows[k] = call.latest.v
                      /\ \A j \in 1..Len(answer.ret.rows) :
                            CreationRank(answer.ret, answer.ret.rows[j])
                                <= CreationRank(answer.ret, answer.ret.rows[k])
                /\ call.response.body = "newer_alert" <=>
                      /\ RowToCardInfo(call.latest.v).exc = NoExc
                      /\ CardIdOf(call.latest.v).ret # call.current_id
                /\ call.response.body = "newer_alert" =>
                      call.response.new_id = CardIdOf(call.latest.v).ret

\* C5 witness: the notice for p1, whose latest card (not the first row of the
\* table) has identifier 8 while current_id is 7.
C5_Witness ==
    /\ call.name = "check_newer"
    /\ call.project = "p1"
    /\ call.current_id = 7
    /\ call.response = [body |-> "newer_alert", new_id |-> 8]
    /\ Len(pad["p1"].ret.rows) >= 2
    /\ pad["p1"].ret.rows[1] = [id |-> Cell(PyInt(7)), date_of_creation |-> D1]
    /\ call.latest.v = [id |-> Cell(PyStr("8")), date_of_creation |-> D2]

----------------------------------------------------------------------------
(* get_latest_card_by_user (specification SpecByUser) *)

MaxUserRows == 3      \* rows of a project's card table in SpecByUser

Seqs(rowset, n) == UNION {[1..k -> rowset] : k \in 0..n}

\* The card tables of p1: each layout of user columns the lookup tells apart.
UserCardTables ==
    {Table({"user_name", "date_of_creation"}, rows) :
        rows \in Seqs({[user_name |-> u, date_of_creation |-> d] :
                          u \in {NaN, Cell("Alice"), Cell("bob")}, d \in {D1, D2}},
                      MaxUserRows)}
    \cup {Table({"user_name.name", "user"}, rows) :
        rows \in Seqs({("user_name.name" :> n) @@ ("user" :> u) :
                          n \in {NaN, Cell("alice"), Cell("bob")},
                          u \in {Cell("alice"), Cell("bob")}},
                      MaxUserRows)}
    \cup {Table({"user_name", "user"}, rows) :
        rows \in Seqs({[user_name |-> NaN, user |-> Cell("alice")],
                       [user_name |-> Cell("bob"), user |-> Cell("alice")]}, MaxUserRows)}
    \cup {Table({"user_name", "notes"}, rows) :
        rows \in Seqs({[user_name |-> Cell("alice"), notes |-> GoodNotes],
                       [user_name |-> Cell("alice"), notes |-> ArrayNotes],
                       [user_name |-> Cell("bob"), notes |-> NaN]}, MaxUserRows)}
    \cup {Table({"date_of_creation"}, rows) :
        rows \in Seqs({[date_of_creation |-> D1]}, MaxUserRows)}

OtherUserCards ==
    Table({"user", "date_of_creation"},
          <<[user |-> Cell("bob"), date_of_creation |-> D3],
            [user |-> Cell("carol"), date_of_creation |-> D1]>>)

UserSource(cards) ==
    [p \in ProjectNames |-> CASE p = "p1" -> Ok(cards)
                              [] p = "p2" -> Ok(OtherUserCards)
                              [] OTHER -> Raise("ConnectionError")]

\* pd.concat(all_cards, ignore_index=True): the union of the columns, a
\* missing cell null, the rows relabelled 0..n-1
RECURSIVE ConcatRows(_, _)
ConcatRows(tables, columns) ==
    IF tables = <<>> THEN <<>>
    ELSE [i \in 1..Len(tables[1].rows) |->
             [c \in columns |-> IF c \in tables[1].columns THEN tables[1].rows[i][c] ELSE NaN]]
         \o ConcatRows(Tail(tables), columns)

Concat(tables) ==
    LET columns == UNION {tables[i].columns : i \in 1..Len(tables)}
    IN  Table(columns, ConcatRows(tables, columns))

\* lines 97-104: the non-empty card tables of the projects listed, a project
\* whose fetch raises being skipped
RECURSIVE AllCards(_)
AllCards(project_ids) ==
    IF project_ids = <<>> THEN <<>>
    ELSE LET answer == PadGetProjectCards(ProjectName(project_ids[1]))
         IN  (IF answer.exc = NoExc /\ ~Empty(answer.ret) THEN <<answer.ret>> ELSE <<>>)
             \o AllCards(Tail(project_ids))

\* cards[cards[user_col].str.lower() == username.lower()]
UserCards(cards, user_col, username) ==
    LET keep == {i \in 1..Len(cards.rows) :
                    /\ ~cards.rows[i][user_col].na
                    /\ Lower(cards.rows[i][user_col].v) = Lower(username)}
        pos == [k \in 1..Cardinality(keep) |->
                    CHOOSE i \in keep : Cardinality({j \in keep : j <= i}) = k]
    IN  [cards EXCEPT !.index = [k \in 1..Cardinality(keep) |-> cards.index[pos[k]]],
                      !.rows = [k \in 1..Cardinality(keep) |-> cards.rows[pos[k]]]]

NotFound(caught, cards) ==
    {[ret |-> None, caught |-> caught, cards |-> cards, latest |-> None]}

\* lines 110-137: from the cards fetched to the card returned.  On a user
\* column holding no string (every cell null) the .str accessor works or
\* raises AttributeError, by the dtype pandas gave the column; either way
\* the call returns None.
LatestOfUser(cards, username) ==
    IF Empty(cards) THEN NotFound(NoExc, cards)
    ELSE LET user_col == FindColumn(cards, <<"user_name", "user">>)
         IN  IF user_col.isNone THEN NotFound(NoExc, cards)
             ELSE LET user_cards == UserCards(cards, user_col.v, username)
                  IN  IF \A i \in 1..Len(cards.rows) : cards.rows[i][user_col.v].na
                      THEN NotFound(NoExc, cards) \cup NotFound("AttributeError", cards)
                      ELSE IF Empty(user_cards) THEN NotFound(NoExc, cards)
                      ELSE {[ret |-> o.ret, caught |-> o.caught, cards |-> cards,
                             latest |-> o.latest] :
                                o \in {LatestOutcome(sorted.rows[1]) :
                                          sorted \in SortByDate(user_cards)}}

\* get_latest_card_by_user(username, project_name): the possible outcomes,
\* each with the project cache it leaves (projects: what get_projects() did,
\* when project_name is omitted or empty)
GetLatestCardByUser(username, project_name, projects) ==
    IF ~project_name.isNone /\ project_name.v # ""
    THEN LET answer == PadGetProjectCards(project_name.v)
         IN  IF answer.exc # NoExc THEN NotFound(answer.exc, EmptyTable)
             ELSE LatestOfUser(answer.ret, username)
    ELSE IF projects.exc # NoExc THEN NotFound(projects.exc, EmptyTable)
    ELSE LET project_ids == [i \in 1..Len(projects.ret.rows) |-> projects.ret.rows[i].id.v]
             all_cards == AllCards(project_ids)
         IN  IF all_cards = <<>> THEN NotFound(NoExc, EmptyTable)
             ELSE LatestOfUser(Concat(all_cards), username)

\* The project tables pad.get_projects() answers with in SpecByUser.
ProjectLists ==
    {t \in UNION {ProjectTablesOf(n) : n \in 0..Cardinality(ProjectNames)} :
        "user_name" \notin t.columns}

Usernames == {"alice", "bob", "carol"}

ProjectArgs == {None, Some("")} \cup {Some(p) : p \in ProjectNames}

InitByUser ==
    /\ Idle0
    /\ call = NoCall
    /\ pad \in {UserSource(cards) : cards \in UserCardTables}

GetLatestCardByUserCall ==
    /\ call = NoCall
    /\ \E username \in Usernames, project_name \in ProjectArgs :
         \E answer \in {Ok(t) : t \in ProjectLists} \cup {Raise("ConnectionError")} :
            LET projects == get_projects(projects_cache, answer)
                scoped == ~project_name.isNone /\ project_name.v # ""
            IN  \E out \in GetLatestCardByUser(username, project_name, projects) :
                   /\ projects_cache' = IF scoped THEN projects_cache ELSE projects.cache
                   /\ call' = [name |-> "get_latest_card_by_user", exc |-> NoExc,
                               username |-> username, project_name |-> project_name,
                               ret |-> out.ret, caught |-> out.caught,
                               cards |-> out.cards, latest |-> out.latest]
    /\ UNCHANGED <<users_cache, epoch, threads, pad>>

NextByUser == Return \/ GetLatestCardByUserCall \/ ClearCache

SpecByUser == InitByUser /\ [][NextByUser]_vars

\* The rows of a table whose user column (user_name, else user) matches the
\* username case-insensitively.
MatchingRows(df, username) ==
    LET c == IF "user_name" \in df.columns THEN "user_name"
             ELSE IF "user" \in df.columns THEN "user" ELSE ""
    IN  IF c = "" THEN {}
        ELSE {k \in 1..Len(df.rows) :
                 ~df.rows[k][c].na /\ Lower(df.rows[k][c].v) = Lower(username)}

\* C3: for the cards of a project and a username matching at least one row's
\* user column case-insensitively, get_latest_card_by_user returns the
\* normalization of a row of that user with the greatest creation date among
\* the user's rows; it returns "not found" when no row matches.
C3_LatestCardOfUser ==
    (/\ call.name = "get_latest_card_by_user"
     /\ ~call.project_name.isNone
     /\ call.project_name.v # ""
     /\ pad[call.project_name.v].exc = NoExc) =>
        LET df == pad[call.project_name.v].ret
            mine == MatchingRows(df, call.username)
        IN  IF mine = {} THEN call.ret.isNone
            ELSE /\ ~call.ret.isNone
                 /\ \E k \in mine :
                       /\ RowToCardInfo(df.rows[k]) = Ok(call.ret.v)
                       /\ \A j \in mine :
                             CreationRank(df, df.rows[j]) <= CreationRank(df, df.rows[k])

\* C10: whenever get_latest_card_by_user returns a card, the card's user_name
\* equals the username asked for, case-insensitively.
C10_ReturnedCardIsUsers ==
    (call.name = "get_latest_card_by_user" /\ ~call.ret.isNone) =>
        Lower(call.ret.v.user_name) = Lower(call.username)

====
